---- MODULE Spec2Model ----
(***************************************************************************)
(* Model of the dashboard server (src/main.py): the WhoopUser object with  *)
(* its per-day memoised accessors, the progress-ring renderer              *)
(* _generate_circle_image, the Flask route handlers and the __main__       *)
(* block that primes every user before the server is started.             *)
(*                                                                         *)
(* Python strings that the program slices, folds or formats are sequences  *)
(* of one-character strings.  An Optional[...] field is <<>> for None and  *)
(* <<v>> for the value v.                                                  *)
(***************************************************************************)
EXTENDS Integers, Sequences, FiniteSets, TLC

VARIABLES obj, date, images, lastRender, lastCall, ghost, usedClosed, lastData, pc, idx, clients, server, resp, primed

vars == <<obj, date, images, lastRender, lastCall, ghost, usedClosed, lastData, pc, idx, clients, server, resp, primed>>

(***************************************************************************)
(* Bounds of the model.                                                    *)
(***************************************************************************)
\* Local dates are day numbers 1..MaxDate.
MaxDate == 2
\* The renderer is called directly with scores and midpoints in
\* -RangeSlack .. 100 + RangeSlack.
RangeSlack == 2
\* User names tried for the image paths have 1..MaxNameLen characters.
MaxNameLen == 2
\* The task service answers with at most MaxRecords records.
MaxRecords == 7
\* Number of entries of USERS (the docstring's <user 1>, <user 2>).
NumUsers == 2

None == <<>>

Min(a, b) == IF a <= b THEN a ELSE b

Max(a, b) == IF a >= b THEN a ELSE b

(***************************************************************************)
(* Strings.                                                                *)
(***************************************************************************)
\* str.lower() of one character, on the characters the model uses.  The
\* sharp s is already lower case.
LowerChar(c) == CASE c = "D" -> "d" [] c = "R" -> "r" [] c = "S" -> "s" [] c = "W" -> "w" [] OTHER -> c

\* str.casefold() of one character: lower case, and the sharp s folds to
\* the two characters "ss".
CasefoldChar(c) == IF c = "ß" THEN <<"s", "s">> ELSE <<LowerChar(c)>>

RECURSIVE Lower(_)
Lower(s) == IF s = <<>> THEN <<>> ELSE <<LowerChar(Head(s))>> \o Lower(Tail(s))

RECURSIVE Casefold(_)
Casefold(s) == IF s = <<>> THEN <<>> ELSE CasefoldChar(Head(s)) \o Casefold(Tail(s))

Drew == <<"D", "r", "e", "w">>

\* USERS = ["Drew"]; the module docstring describes a deployment with
\* <user 1> and <user 2>, so the list is modelled with NumUsers entries:
\* Drew, then Drew followed by k - 1 times "w".
UserName(k) == Drew \o [j \in 1..(k - 1) |-> "w"]

USERS == [k \in 1..NumUsers |-> UserName(k)]

START_RGB == <<"#", "F", "F", "0", "0", "0", "0">>

CROSS_RGB == <<"#", "F", "F", "F", "F", "0", "0">>

FINAL_RGB == <<"#", "0", "6", "B", "0", "2", "5">>

Recovery == <<"R", "e", "c", "o", "v", "e", "r", "y">>

Sleep == <<"S", "l", "e", "e", "p">>

Titles == {Recovery, Sleep}

HexDigits == <<"0", "1", "2", "3", "4", "5", "6", "7", "8", "9", "A", "B", "C", "D", "E", "F">>

HexVal(c) == CHOOSE v \in 0..15 : HexDigits[v + 1] = c

\* int(s[i : i + 2], 16) for the Python index i (0-based).
ParseHex2(s, i) == HexVal(s[i + 1]) * 16 + HexVal(s[i + 2])

\* nparray([int(S[i : i + 2], 16) for i in (1, 3, 5)])
RgbOf(s) == <<ParseHex2(s, 1), ParseHex2(s, 3), ParseHex2(s, 5)>>

RECURSIVE ToHex(_)
ToHex(n) == IF n < 16 THEN <<HexDigits[n + 1]>> ELSE ToHex(n \div 16) \o <<HexDigits[(n % 16) + 1]>>

\* f"{n:02X}": upper-case hex, zero-padded to width 2, the sign counted in
\* the width.
Format02X(n) == IF n < 0 THEN <<"-">> \o ToHex(-n) ELSE IF n < 16 THEN <<"0">> \o ToHex(n) ELSE ToHex(n)

(***************************************************************************)
(* The renderer, WhoopUser._generate_circle_image.                         *)
(***************************************************************************)
\* (data - midpoint) / (100 - midpoint) as the rational num / den with
\* den > 0.  Only evaluated when 100 - midpoint # 0.
Quotient(data, midpoint) == LET n == data - midpoint
                                d == 100 - midpoint
                            IN  IF d < 0 THEN [num |-> -n, den |-> -d] ELSE [num |-> n, den |-> d]

\* The fraction without max(..., 0).
FractionNoClamp(data, midpoint) == Quotient(data, midpoint)

\* fraction = max((data - midpoint) / (100 - midpoint), 0)
Fraction(data, midpoint) == LET q == Quotient(data, midpoint)
                            IN  IF q.num < 0 THEN [num |-> 0, den |-> q.den] ELSE q

\* astype(int): truncation toward zero of a / b, b > 0.
Trunc(a, b) == IF a >= 0 THEN a \div b ELSE -((-a) \div b)

\* (lo + fraction * (hi - lo)).astype(int), channel by channel.  The code
\* computes in float64; the exact rational agrees with it on every score and
\* midpoint in 0..100.
Interpolate(lo, hi, fr) == [c \in 1..3 |-> Trunc(lo[c] * fr.den + fr.num * (hi[c] - lo[c]), fr.den)]

\* The branches split at data < midpoint instead of data <= midpoint.
RingRgbStrict(data, midpoint) == IF data < midpoint THEN Interpolate(RgbOf(START_RGB), RgbOf(CROSS_RGB), Fraction(data, midpoint)) ELSE Interpolate(RgbOf(CROSS_RGB), RgbOf(FINAL_RGB), Fraction(data, midpoint))

\* Lines 147-156: both branches compute the same fraction; they differ in
\* the pair of colour stops.
RingRgb(data, midpoint) == IF data <= midpoint THEN Interpolate(RgbOf(START_RGB), RgbOf(CROSS_RGB), Fraction(data, midpoint)) ELSE Interpolate(RgbOf(CROSS_RGB), RgbOf(FINAL_RGB), Fraction(data, midpoint))

\* color = f"#{rgb[0]:02X}{rgb[1]:02X}{rgb[2]:02X}"
ColorOf(rgb) == <<"#">> \o Format02X(rgb[1]) \o Format02X(rgb[2]) \o Format02X(rgb[3])

\* axis.barh(..., color=color): matplotlib takes "#" followed by 3, 4, 6 or
\* 8 hex digits and raises ValueError on any other string.
ValidColor(c) == /\ Len(c) - 1 \in {3, 4, 6, 8}
                 /\ \A k \in 2..Len(c) : \E v \in 1..16 : HexDigits[v] = c[k]

\* '_'.join([self.name.casefold(), title.lower()]) + ".png", the file
\* name under <cwd>/static/img that savefig writes.
ImageFile(name, title) == Casefold(name) \o <<"_">> \o Lower(title) \o <<".", "p", "n", "g">>

NoRender == [title |-> <<>>, data |-> 0, midpoint |-> 0, outcome |-> "none", color |-> <<>>, file |-> <<>>]

\* One call of the renderer: its outcome ("saved", or the exception that
\* ends it before savefig), the colour string and the file written.
_generate_circle_image(name, title, data, midpoint) ==
    IF 100 - midpoint = 0
    THEN [title |-> title, data |-> data, midpoint |-> midpoint, outcome |-> "ZeroDivisionError", color |-> <<>>, file |-> <<>>]
    ELSE LET color == ColorOf(RingRgb(data, midpoint))
         IN  IF ValidColor(color)
             THEN [title |-> title, data |-> data, midpoint |-> midpoint, outcome |-> "saved", color |-> color, file |-> ImageFile(name, title)]
             ELSE [title |-> title, data |-> data, midpoint |-> midpoint, outcome |-> "ValueError", color |-> color, file |-> <<>>]

(***************************************************************************)
(* The WhoopUser object.                                                   *)
(***************************************************************************)
Metrics == {"recovery", "sleep", "strain"}

\* Percent scores the fitness API answers with (recovery, sleep).
ApiScores == {0, 90}

\* Strain values the fitness API answers with, in hundredths.
ApiStrains == {1234, 1287}

\* What one round of calls to the fitness API gives: a value, or an
\* exception (network failure, rejected credentials, empty collection).
Failure == [ok |-> FALSE, value |-> 0]

ScoreAnswers == {Failure} \cup {[ok |-> TRUE, value |-> v] : v \in ApiScores}

StrainAnswers == {Failure} \cup {[ok |-> TRUE, value |-> v] : v \in ApiStrains}

\* date.today().strftime("%Y-%m-%d"): one string per calendar date, and
\* distinct dates give distinct strings.
Strftime(d) == <<d>>

\* round(x, 1) of a strain given in hundredths, as tenths; a tie goes to the
\* even tenth.
Round1(h) == LET t == h \div 10
                 r == h % 10
             IN  IF r > 5 \/ (r = 5 /\ t % 2 = 1) THEN t + 1 ELSE t

\* WhoopUser.__init__
NewUser(name) == [name |-> name, sleep |-> None, strain |-> None, recovery |-> None, _today |-> None, closed |-> FALSE]

\* The property WhoopUser.today read on local date d: the object after it.
today(o, d) == IF o._today # Strftime(d) THEN [o EXCEPT !.sleep = None, !.strain = None, !.recovery = None, !._today = Strftime(d)] ELSE o

\* A call that returns the cached value.
Hit(o, v) == [o |-> o, ret |-> v, fetched |-> FALSE, raised |-> FALSE, render |-> NoRender]

\* A call that ends in an exception after self.today was read.
Raised(o, r) == [o |-> o, ret |-> None, fetched |-> TRUE, raised |-> TRUE, render |-> r]

\* A call that fetched, rendered (or not, for strain) and cached v.
Fetched(o, v, r) == [o |-> o, ret |-> <<v>>, fetched |-> TRUE, raised |-> FALSE, render |-> r]

\* WhoopUser.get_recovery on object o, local date d, API answer api.
get_recovery(o, d, api) ==
    IF o.recovery # None
    THEN Hit(o, o.recovery)
    ELSE LET o1 == today(o, d)
         IN  IF ~api.ok
             THEN Raised(o1, NoRender)
             ELSE LET r == _generate_circle_image(o.name, Recovery, api.value, 33)
                  IN  IF r.outcome # "saved"
                      THEN Raised(o1, r)
                      ELSE Fetched([o1 EXCEPT !.recovery = <<api.value>>], api.value, r)

\* WhoopUser.get_sleep
get_sleep(o, d, api) ==
    IF o.sleep # None
    THEN Hit(o, o.sleep)
    ELSE LET o1 == today(o, d)
         IN  IF ~api.ok
             THEN Raised(o1, NoRender)
             ELSE LET r == _generate_circle_image(o.name, Sleep, api.value, 70)
                  IN  IF r.outcome # "saved"
                      THEN Raised(o1, r)
                      ELSE Fetched([o1 EXCEPT !.sleep = <<api.value>>], api.value, r)

\* WhoopUser.get_strain: no image.
get_strain(o, d, api) ==
    IF o.strain # None
    THEN Hit(o, o.strain)
    ELSE LET o1 == today(o, d)
         IN  IF ~api.ok
             THEN Raised(o1, NoRender)
             ELSE Fetched([o1 EXCEPT !.strain = <<Round1(api.value)>>], Round1(api.value), NoRender)

\* The property WhoopUser.data: the two image references, as the file
\* names under /static/img/ (the "http://<host>" prefix is left out).
data(o) == [name |-> o.name, sleepImage |-> Lower(o.name) \o <<"_", "s", "l", "e", "e", "p", ".", "p", "n", "g">>, recoveryImage |-> Lower(o.name) \o <<"_", "r", "e", "c", "o", "v", "e", "r", "y", ".", "p", "n", "g">>]

(***************************************************************************)
(* History of the accessor calls (not program state).                      *)
(***************************************************************************)
NoCall == [u |-> 0, metric |-> "none", date |-> 0, fetched |-> FALSE, raised |-> FALSE, rendered |-> FALSE, ret |-> None, cachedOn |-> None, firstToday |-> None]

\* cachedOn[m]: the date of the accessor's latest caching; firstToday[m]: the
\* value its first successful call on the current date returned;
\* renders[m]: the renderer calls it made on the current date; args: the
\* (title, midpoint) pairs the accessors passed to the renderer.
NewGhost == [cachedOn |-> [m \in Metrics |-> None], firstToday |-> [m \in Metrics |-> None], renders |-> [m \in Metrics |-> 0], args |-> {}]

GhostAfter(g, m, d, r) ==
    [cachedOn |-> IF r.fetched /\ ~r.raised THEN [g.cachedOn EXCEPT ![m] = <<d>>] ELSE g.cachedOn,
     firstToday |-> IF ~r.raised /\ g.firstToday[m] = None THEN [g.firstToday EXCEPT ![m] = r.ret] ELSE g.firstToday,
     renders |-> IF r.render.outcome # "none" THEN [g.renders EXCEPT ![m] = Min(@ + 1, 2)] ELSE g.renders,
     args |-> IF r.render.outcome # "none" THEN g.args \cup {<<m, r.render.title, r.render.midpoint>>} ELSE g.args]

\* The effect of accessor m of object u ending as r; exiting says that the
\* enclosing "with" block is left by the exception, which closes the client.
Apply(u, m, r, exiting) ==
    /\ obj' = [obj EXCEPT ![u] = IF exiting /\ r.raised THEN [r.o EXCEPT !.closed = TRUE] ELSE r.o]
    /\ images' = IF r.render.outcome = "saved" THEN images \cup {r.render.file} ELSE images
    /\ lastRender' = IF r.render.outcome # "none" THEN r.render ELSE lastRender
    /\ ghost' = [ghost EXCEPT ![u] = GhostAfter(@, m, date, r)]
    /\ lastCall' = [u |-> u, metric |-> m, date |-> date, fetched |-> r.fetched, raised |-> r.raised, rendered |-> (r.render.outcome # "none"), ret |-> r.ret, cachedOn |-> ghost[u].cachedOn[m], firstToday |-> ghost[u].firstToday[m]]
    /\ usedClosed' = (usedClosed \/ (r.fetched /\ obj[u].closed))

\* The local date moves on to the next day.
Tick ==
    /\ date < MaxDate
    /\ date' = date + 1
    /\ ghost' = [u \in DOMAIN ghost |-> [ghost[u] EXCEPT !.firstToday = [m \in Metrics |-> None], !.renders = [m \in Metrics |-> 0]]]
    /\ UNCHANGED <<obj, images, lastRender, lastCall, usedClosed, lastData, pc, idx, clients, server, resp, primed>>

(***************************************************************************)
(* SpecUser: one WhoopUser under any sequence of accessor calls and date   *)
(* changes.                                                                *)
(***************************************************************************)
NoResp == [route |-> "none", status |-> 0, upstream |-> 0, sent |-> <<>>, body |-> <<>>, error |-> ""]

\* The state around one WhoopUser named name, outside the main program.
InitObject(name) ==
    /\ obj = [u \in {1} |-> NewUser(name)]
    /\ ghost = [u \in {1} |-> NewGhost]
    /\ date = 1
    /\ images = {}
    /\ lastCall = NoCall
    /\ usedClosed = FALSE
    /\ lastData = None
    /\ pc = "object"
    /\ idx = 0
    /\ clients = <<>>
    /\ server = "none"
    /\ resp = NoResp
    /\ primed = <<>>

CallRecovery ==
    /\ \E u \in DOMAIN obj, api \in ScoreAnswers : Apply(u, "recovery", get_recovery(obj[u], date, api), FALSE)
    /\ UNCHANGED <<date, lastData, pc, idx, clients, server, resp, primed>>

CallSleep ==
    /\ \E u \in DOMAIN obj, api \in ScoreAnswers : Apply(u, "sleep", get_sleep(obj[u], date, api), FALSE)
    /\ UNCHANGED <<date, lastData, pc, idx, clients, server, resp, primed>>

CallStrain ==
    /\ \E u \in DOMAIN obj, api \in StrainAnswers : Apply(u, "strain", get_strain(obj[u], date, api), FALSE)
    /\ UNCHANGED <<date, lastData, pc, idx, clients, server, resp, primed>>

\* Reading the property data of an object.
ReadData ==
    /\ \E u \in DOMAIN obj : lastData' = <<data(obj[u])>>
    /\ UNCHANGED <<obj, date, images, lastRender, lastCall, ghost, usedClosed, pc, idx, clients, server, resp, primed>>

InitUser == InitObject(Drew) /\ lastRender = NoRender

NextUser == CallRecovery \/ CallSleep \/ CallStrain \/ ReadData \/ Tick

SpecUser == InitUser /\ [][NextUser]_vars

\* C1: for each accessor, a call made on a local date other than the date
\* on which the accessor last cached a value fetches from the fitness API
\* (and, for recovery and sleep, renders the image again) instead of
\* returning the value cached on the earlier date.
C1_DateChangeForcesRecompute ==
    (lastCall.metric \in Metrics /\ lastCall.cachedOn # None /\ lastCall.cachedOn # <<lastCall.date>>)
        => /\ lastCall.fetched
           /\ (~lastCall.raised /\ lastCall.metric \in {"recovery", "sleep"}) => lastCall.rendered

\* C2: while the local date does not change, every successful call of an
\* accessor returns the value its first successful call on that date
\* returned, and the renderer is invoked at most once per metric: for
\* recovery with midpoint 33, for sleep with midpoint 70, never for strain.
C2_SameDayMemoization ==
    /\ (lastCall.metric \in Metrics /\ ~lastCall.raised /\ lastCall.firstToday # None) => lastCall.ret = lastCall.firstToday
    /\ \A u \in DOMAIN ghost :
          /\ \A m \in Metrics : ghost[u].renders[m] <= 1
          /\ ghost[u].args \subseteq {<<"recovery", Recovery, 33>>, <<"sleep", Sleep, 70>>}

(***************************************************************************)
(* SpecPath: one WhoopUser of any name; its accessors write the images and *)
(* its property data names them.                                           *)
(***************************************************************************)
NameAlphabet == {"D", "w", "ß"}

RECURSIVE StringsOfLen(_)
StringsOfLen(n) == IF n = 0 THEN {<<>>} ELSE {<<c>> \o s : c \in NameAlphabet, s \in StringsOfLen(n - 1)}

Names == UNION {StringsOfLen(n) : n \in 1..MaxNameLen}

InitPath == \E name \in Names : InitObject(name) /\ lastRender = NoRender

NextPath == CallRecovery \/ CallSleep \/ ReadData

SpecPath == InitPath /\ [][NextPath]_vars

\* C6: the file that the renderer wrote for sleep / recovery is the file
\* that the property data references as sleepImage / recoveryImage.
C6_ImagePathAgreement ==
    (lastData # None /\ lastRender.outcome = "saved")
        => lastRender.file = (IF lastRender.title = Sleep THEN lastData[1].sleepImage ELSE lastData[1].recoveryImage)

(***************************************************************************)
(* SpecRender: the renderer called once with any title, score and midpoint *)
(* of the range.                                                           *)
(***************************************************************************)
Range == (0 - RangeSlack)..(100 + RangeSlack)

Called(title, score, midpoint) == [title |-> title, data |-> score, midpoint |-> midpoint, outcome |-> "called", color |-> <<>>, file |-> <<>>]

InitRender ==
    /\ InitObject(Drew)
    /\ \E title \in Titles, score \in Range, midpoint \in Range : lastRender = Called(title, score, midpoint)

\* The call self._generate_circle_image(title, data, midpoint) runs.
Render ==
    /\ lastRender.outcome = "called"
    /\ LET r == _generate_circle_image(obj[1].name, lastRender.title, lastRender.data, lastRender.midpoint)
       IN  /\ lastRender' = r
           /\ images' = IF r.outcome = "saved" THEN images \cup {r.file} ELSE images
    /\ UNCHANGED <<obj, date, lastCall, ghost, usedClosed, lastData, pc, idx, clients, server, resp, primed>>

NextRender == Render

SpecRender == InitRender /\ [][NextRender]_vars

Returned == lastRender.outcome \notin {"none", "called"}

\* C3, as claimed: for every midpoint in [0, 100) and score equal to the
\* midpoint, the colour the renderer computes is the cross stop colour
\* CROSS_RGB.
C3_MidpointIsCross ==
    (Returned /\ lastRender.midpoint \in 0..99 /\ lastRender.data = lastRender.midpoint) => lastRender.color = CROSS_RGB

\* C3, amended: for every midpoint in [0, 100) and score equal to the
\* midpoint, the colour the renderer computes is the start stop colour
\* START_RGB (the score takes the low branch, whose fraction is 0).
C3_MidpointIsStart ==
    (Returned /\ lastRender.midpoint \in 0..99 /\ lastRender.data = lastRender.midpoint) => (lastRender.outcome = "saved" /\ lastRender.color = START_RGB)

C3_Witness ==
    /\ lastRender.outcome = "saved"
    /\ lastRender.title = Recovery
    /\ lastRender.midpoint = 33
    /\ lastRender.data = 33
    /\ lastRender.color = START_RGB

\* C4: for every midpoint in [0, 100) and every score in [0, 100] below the
\* midpoint, the colour the renderer computes is the start stop colour
\* START_RGB (the low-segment fraction is clamped to 0).
C4_BelowMidpointIsStart ==
    (Returned /\ lastRender.midpoint \in 0..99 /\ lastRender.data \in 0..100 /\ lastRender.data < lastRender.midpoint) => lastRender.color = START_RGB

C4_Witness ==
    /\ lastRender.outcome = "saved"
    /\ lastRender.midpoint = 70
    /\ lastRender.data = 12
    /\ lastRender.color = START_RGB
    /\ ImageFile(Drew, lastRender.title) \in images

\* C5: a renderer call whose score or midpoint lies outside [0, 100] ends in
\* an error and writes no image file.
C5_FailsFastOutOfRange ==
    (Returned /\ (lastRender.data \notin 0..100 \/ lastRender.midpoint \notin 0..100)) => (lastRender.outcome # "saved" /\ images = {})

(***************************************************************************)
(* GET /weather.                                                           *)
(***************************************************************************)
\* The names bound at module level when a handler runs: the imports of
\* lines 19-33 and the module's own definitions.  "math" is not imported.
ModuleNames == {"suppress", "date", "datetime", "Enum", "getenv", "getcwd", "join", "Optional", "load_dotenv", "Flask", "jsonify", "render_template", "request", "Axes", "plt", "nparray", "pi", "inf", "get", "WhoopClient", "app", "USERS", "ZIP", "START_RGB", "CROSS_RGB", "FINAL_RGB", "Key", "WhoopUser", "index", "get_weather", "comparison", "show_tasks", "clients"}

\* math.inf, in tenths of a degree: above every temperature of the model.
Inf == 1000000

\* round(x) of a temperature given in tenths: to the nearest integer, a tie
\* to the even one.
Round(t) == LET f == IF t >= 0 THEN t \div 10 ELSE -((-t + 9) \div 10)
                r == t - 10 * f
            IN  IF r > 5 \/ (r = 5 /\ f % 2 = 1) THEN f + 1 ELSE f

UpperChar(c) == CASE c = "r" -> "R" [] c = "f" -> "F" [] c = "c" -> "C" [] c = "s" -> "S" [] c = "l" -> "L" [] OTHER -> c

\* str.title(): the first letter of every word in upper case, the others in
\* lower case.
RECURSIVE Title(_, _)
Title(s, atStart) == IF s = <<>> THEN <<>> ELSE IF Head(s) = " " THEN <<" ">> \o Title(Tail(s), TRUE) ELSE <<IF atStart THEN UpperChar(Head(s)) ELSE LowerChar(Head(s))>> \o Title(Tail(s), FALSE)

Weekdays == <<"Monday", "Tuesday", "Wednesday", "Thursday", "Friday", "Saturday", "Sunday">>

\* datetime.fromtimestamp(dt).strftime("%A"), dt in hours since a Monday
\* 00:00 local time.
DayOfWeek(dt) == Weekdays[((dt \div 24) % 7) + 1]

\* The loop of lines 210-232 from index i on, with its accumulators.
RECURSIVE WeatherLoop(_, _, _, _, _, _)
WeatherLoop(list, i, hi, lo, descriptions, forecast) ==
    IF i = 5 * 8
    THEN forecast
    ELSE LET e == list[i + 1]
             lo2 == Min(lo, e.temp_min)
             hi2 == Max(hi, e.temp_max)
             d2 == Append(descriptions, e.description)
         IN  IF (i + 1) % 8 = 0
             THEN WeatherLoop(list, i + 1, -Inf, Inf, <<>>, Append(forecast, [date |-> DayOfWeek(e.dt), description |-> Title(d2[5], TRUE), low_temp |-> <<Round(lo2), "°F">>, high_temp |-> <<Round(hi2), "°F">>, icon_code |-> e.icon]))
             ELSE WeatherLoop(list, i + 1, hi2, lo2, d2, forecast)

Response(route, status, upstream, sent, body, error) == [route |-> route, status |-> status, upstream |-> upstream, sent |-> sent, body |-> body, error |-> error]

\* The handler get_weather on the provider's answer up (status 0: the GET
\* itself raised).  An exception leaving a handler is Flask's answer 500.
get_weather(up) ==
    IF up.status # 200
    THEN Response("/weather", 500, up.status, up.list, <<>>, "HTTPError")
    ELSE IF "math" \notin ModuleNames
         THEN Response("/weather", 500, up.status, up.list, <<>>, "NameError")
         ELSE IF Len(up.list) < 5 * 8
              THEN Response("/weather", 500, up.status, up.list, <<>>, "IndexError")
              ELSE Response("/weather", 200, up.status, up.list, WeatherLoop(up.list, 0, -Inf, Inf, <<>>, <<>>), "")

\* Provider answers tried: MaxForecasts forecasts of 40 and of 41 entries.
MaxForecasts == 2

Descriptions == <<<<"r", "a", "i", "n">>, <<"f", "e", "w", " ", "c", "l", "o", "u", "d", "s">>, <<"c", "l", "e", "a", "r", " ", "s", "k", "y">>>>

\* Entry i (from 1) of forecast s: 3-hour steps, temp_min <= temp_max, in
\* tenths of a degree Fahrenheit.
ForecastEntry(s, i) == LET lo == 400 + ((7 * i + 3 * s) % 11) * 13
                       IN  [dt |-> 3 * (i - 1) + 3 * s, description |-> Descriptions[((i + s) % 3) + 1], temp_min |-> lo, temp_max |-> lo + ((i + s) % 4) * 5, icon |-> <<"0", (i + s) % 4, "d">>]

WeatherAnswers == {[status |-> 200, list |-> [i \in 1..n |-> ForecastEntry(s, i)]] : s \in 1..MaxForecasts, n \in {40, 41}} \cup {[status |-> c, list |-> <<>>] : c \in {0, 401, 500}}

(***************************************************************************)
(* GET /tasks.                                                             *)
(***************************************************************************)
DigitChars == <<"0", "1", "2", "3", "4", "5", "6", "7", "8", "9">>

DigitVal(c) == CHOOSE v \in 0..9 : DigitChars[v + 1] = c

RECURSIVE ParseInt(_)
ParseInt(s) == IF s = <<>> THEN 0 ELSE 10 * ParseInt(SubSeq(s, 1, Len(s) - 1)) + DigitVal(s[Len(s)])

\* datetime.strptime(s, "%d-%m-%Y %H:%M:%S")
Strptime(s) == [day |-> ParseInt(SubSeq(s, 1, 2)), month |-> ParseInt(SubSeq(s, 4, 5)), year |-> ParseInt(SubSeq(s, 7, 10))]

MonthNames == <<"January", "February", "March", "April", "May", "June", "July", "August", "September", "October", "November", "December">>

\* strftime("%B %d, %Y"): the month's name, the day in two digits, the
\* year in four.
StrftimeLong(t) == <<MonthNames[t.month], " ", DigitChars[(t.day \div 10) + 1], DigitChars[(t.day % 10) + 1], ",", " ", DigitChars[(t.year \div 1000) + 1], DigitChars[((t.year \div 100) % 10) + 1], DigitChars[((t.year \div 10) % 10) + 1], DigitChars[(t.year % 10) + 1]>>

\* tasks[:6]
TaskSlice(tasks) == SubSeq(tasks, 1, Min(Len(tasks), 6))

\* The records read whatever the status code.
TasksOfAnyStatus(up) == [k \in 1..Len(up.records) |-> <<up.records[k][2], up.records[k][3]>>]

\* Lines 246-251: the (description, due date) pairs of the answer's
\* records, read only when the status code is 200.
TasksOf(up) == IF up.status = 200 THEN [k \in 1..Len(up.records) |-> <<up.records[k][2], up.records[k][3]>>] ELSE <<>>

\* The handler show_tasks on the task service's answer up (status 0: the
\* GET itself raised).
show_tasks(up) ==
    IF up.status = 0
    THEN Response("/tasks", 500, up.status, up.records, <<>>, "ConnectionError")
    ELSE LET tasks == TaskSlice(TasksOf(up))
         IN  Response("/tasks", 200, up.status, up.records, [k \in 1..Len(tasks) |-> [task |-> tasks[k][1], date |-> StrftimeLong(Strptime(tasks[k][2]))]], "")

DueDates == <<<<"0", "1", "-", "0", "3", "-", "2", "0", "2", "4", " ", "0", "9", ":", "0", "0", ":", "0", "0">>, <<"2", "4", "-", "1", "2", "-", "2", "0", "2", "5", " ", "1", "8", ":", "3", "0", ":", "0", "0">>, <<"1", "5", "-", "0", "7", "-", "2", "0", "2", "6", " ", "2", "3", ":", "5", "9", ":", "5", "9">>>>

TaskNames == <<"laundry", "groceries">>

\* Record k of the task service: [id, description, dueDateString].
TaskRecord(k) == <<k, TaskNames[(k % 2) + 1], DueDates[(k % 3) + 1]>>

\* Answers of the task service tried: 200 with 0..MaxRecords records, an
\* error status with a body of no or of MaxRecords records, and no answer.
TaskAnswers == {[status |-> 200, records |-> [k \in 1..n |-> TaskRecord(k)]] : n \in 0..MaxRecords} \cup {[status |-> c, records |-> [k \in 1..n |-> TaskRecord(k)]] : c \in {404, 500}, n \in {0, MaxRecords}} \cup {[status |-> 0, records |-> <<>>]}

(***************************************************************************)
(* Spec: the main program.  The __main__ block primes every user of USERS  *)
(* and then starts the server, whose handlers answer requests.             *)
(***************************************************************************)
NewPrimed == [calls |-> [m \in {"sleep", "recovery"} |-> 0], done |-> [m \in {"sleep", "recovery"} |-> 0], rendered |-> {}]

\* History of the __main__ block's calls client.get_sleep() and
\* client.get_recovery() on object u (not program state).
PrimedAfter(q, m, r) == [calls |-> [q.calls EXCEPT ![m] = Min(@ + 1, 2)], done |-> IF r.raised THEN q.done ELSE [q.done EXCEPT ![m] = Min(@ + 1, 2)], rendered |-> IF r.render.outcome = "saved" THEN q.rendered \cup {r.render.file} ELSE q.rendered]

Init ==
    /\ obj = <<>>
    /\ ghost = <<>>
    /\ primed = <<>>
    /\ date = 1
    /\ images = {}
    /\ lastRender = NoRender
    /\ lastCall = NoCall
    /\ usedClosed = FALSE
    /\ lastData = None
    /\ pc = "construct"
    /\ idx = 1
    /\ clients = <<>>
    /\ server = "down"
    /\ resp = NoResp

\* Line 268, WhoopUser(name): WhoopClient(username, password) logs in and
\* may raise, which ends the program before the "with" block is entered.
MainConstruct ==
    /\ pc = "construct"
    /\ \E ok \in BOOLEAN :
          IF ok
          THEN /\ obj' = obj @@ (idx :> NewUser(USERS[idx]))
               /\ ghost' = ghost @@ (idx :> NewGhost)
               /\ primed' = primed @@ (idx :> NewPrimed)
               /\ pc' = "sleep"
          ELSE /\ pc' = "crashed"
               /\ UNCHANGED <<obj, ghost, primed>>
    /\ UNCHANGED <<date, images, lastRender, lastCall, usedClosed, lastData, idx, clients, server, resp>>

\* The priming calls wrapped in a try / except that goes on.
AfterPrimingSwallowed(raised, next) == next

\* Where the __main__ block goes after a priming call: an exception leaves
\* the "with" block (closing the client) and ends the program.
AfterPriming(raised, next) == IF raised THEN "crashed" ELSE next

\* Line 269: client.get_sleep()
MainGetSleep ==
    /\ pc = "sleep"
    /\ \E api \in ScoreAnswers :
          LET r == get_sleep(obj[idx], date, api)
          IN  /\ Apply(idx, "sleep", r, TRUE)
              /\ primed' = [primed EXCEPT ![idx] = PrimedAfter(@, "sleep", r)]
              /\ pc' = AfterPriming(r.raised, "recovery")
    /\ UNCHANGED <<date, lastData, idx, clients, server, resp>>

\* Line 270: client.get_recovery()
MainGetRecovery ==
    /\ pc = "recovery"
    /\ \E api \in ScoreAnswers :
          LET r == get_recovery(obj[idx], date, api)
          IN  /\ Apply(idx, "recovery", r, TRUE)
              /\ primed' = [primed EXCEPT ![idx] = PrimedAfter(@, "recovery", r)]
              /\ pc' = AfterPriming(r.raised, "append")
    /\ UNCHANGED <<date, lastData, idx, clients, server, resp>>

\* Line 271 and the end of the "with" block: clients.append(client), then
\* __exit__ closes the client; the loop goes on to the next name.
MainAppend ==
    /\ pc = "append"
    /\ clients' = Append(clients, idx)
    /\ obj' = [obj EXCEPT ![idx].closed = TRUE]
    /\ idx' = idx + 1
    /\ pc' = IF idx + 1 > Len(USERS) THEN "run" ELSE "construct"
    /\ UNCHANGED <<date, images, lastRender, lastCall, ghost, usedClosed, lastData, server, resp, primed>>

\* Lines 272-273: app.run(...) starts accepting connections.
MainRun ==
    /\ pc = "run"
    /\ server' = "accepting"
    /\ pc' = "serving"
    /\ UNCHANGED <<obj, date, images, lastRender, lastCall, ghost, usedClosed, lastData, idx, clients, resp, primed>>

\* GET /
RouteIndex ==
    /\ server = "accepting"
    /\ resp' = Response("/", 200, 0, <<>>, <<"index.html">>, "")
    /\ UNCHANGED <<obj, date, images, lastRender, lastCall, ghost, usedClosed, lastData, pc, idx, clients, server, primed>>

\* GET /weather
RouteWeather ==
    /\ server = "accepting"
    /\ \E up \in WeatherAnswers : resp' = get_weather(up)
    /\ UNCHANGED <<obj, date, images, lastRender, lastCall, ghost, usedClosed, lastData, pc, idx, clients, server, primed>>

\* A /comparison that also reports a client's strain: get_strain runs on
\* a client that the "with" block closed.
RouteComparisonStrain ==
    /\ server = "accepting"
    /\ \E k \in 1..Len(clients), api \in StrainAnswers :
          /\ Apply(clients[k], "strain", get_strain(obj[clients[k]], date, api), FALSE)
          /\ resp' = Response("/comparison", 200, 0, <<>>, [j \in 1..Len(clients) |-> data(obj[clients[j]])], "")
    /\ UNCHANGED <<date, lastData, pc, idx, clients, server, primed>>

\* GET /comparison: [user.data for user in clients]
RouteComparison ==
    /\ server = "accepting"
    /\ resp' = Response("/comparison", 200, 0, <<>>, [j \in 1..Len(clients) |-> data(obj[clients[j]])], "")
    /\ UNCHANGED <<obj, date, images, lastRender, lastCall, ghost, usedClosed, lastData, pc, idx, clients, server, primed>>

\* GET /tasks
RouteTasks ==
    /\ server = "accepting"
    /\ \E up \in TaskAnswers : resp' = show_tasks(up)
    /\ UNCHANGED <<obj, date, images, lastRender, lastCall, ghost, usedClosed, lastData, pc, idx, clients, server, primed>>

Next == MainConstruct \/ MainGetSleep \/ MainGetRecovery \/ MainAppend \/ MainRun \/ RouteIndex \/ RouteWeather \/ RouteComparison \/ RouteTasks \/ Tick

Spec == Init /\ [][Next]_vars

\* The minimum and the maximum of a non-empty set of integers.
SetMin(S) == CHOOSE x \in S : \A y \in S : x <= y

SetMax(S) == CHOOSE x \in S : \A y \in S : x >= y

\* C7: when the weather provider answers 200 with at least 40 entries,
\* GET /weather returns exactly 5 day-entries; entry k (from 0) has the
\* rounded minimum temp_min and the rounded maximum temp_max of the input
\* entries 8k..8k+7 (low <= high) and the title-cased description of input
\* entry 8k+4.
C7_WeatherReshaping ==
    (resp.route = "/weather" /\ resp.upstream = 200 /\ Len(resp.sent) >= 40)
        => /\ resp.status = 200
           /\ Len(resp.body) = 5
           /\ \A k \in 0..4 :
                 LET lo == Round(SetMin({resp.sent[j].temp_min : j \in (8 * k + 1)..(8 * k + 8)}))
                     hi == Round(SetMax({resp.sent[j].temp_max : j \in (8 * k + 1)..(8 * k + 8)}))
                 IN  /\ resp.body[k + 1].low_temp = <<lo, "°F">>
                     /\ resp.body[k + 1].high_temp = <<hi, "°F">>
                     /\ lo <= hi
                     /\ resp.body[k + 1].description = Title(resp.sent[8 * k + 5].description, TRUE)

\* C8: when the task service answers GET /retrieve with a status code other
\* than 200, GET /tasks answers successfully with an empty task list; when
\* it answers 200 with n records, the result has min(n, 6) entries, in
\* input order.
C8_TasksDegradeGracefully ==
    /\ (resp.route = "/tasks" /\ resp.upstream \notin {0, 200}) => (resp.status = 200 /\ resp.error = "" /\ resp.body = <<>>)
    /\ (resp.route = "/tasks" /\ resp.upstream = 200)
          => /\ resp.status = 200
             /\ Len(resp.body) = Min(Len(resp.sent), 6)
             /\ \A k \in 1..Len(resp.body) : resp.body[k].task = resp.sent[k][2] /\ resp.body[k].date = StrftimeLong(Strptime(resp.sent[k][3]))
             /\ Len(resp.body) >= 3 => resp.body[3].date = <<"March", " ", "0", "1", ",", " ", "2", "0", "2", "4">>

C8_Witness ==
    /\ resp.route = "/tasks"
    /\ resp.upstream = 500
    /\ Len(resp.sent) >= 7
    /\ resp.status = 200
    /\ resp.body = <<>>

\* The __main__ block called get_sleep and get_recovery of user k once
\* each, both returned, and both rendered their image.
PrimedOnce(k) ==
    /\ k \in DOMAIN obj
    /\ \A m \in {"sleep", "recovery"} : primed[k].calls[m] = 1 /\ primed[k].done[m] = 1
    /\ primed[k].rendered = {ImageFile(USERS[k], Sleep), ImageFile(USERS[k], Recovery)}
    /\ primed[k].rendered \subseteq images

\* Priming never runs twice, and after a priming call that raised the
\* server is not started.
PrimingGuards ==
    /\ \A u \in DOMAIN primed : \A m \in {"sleep", "recovery"} : primed[u].calls[m] <= 1
    /\ (\E u \in DOMAIN primed : \E m \in {"sleep", "recovery"} : primed[u].calls[m] > primed[u].done[m]) => server = "down"
    /\ pc = "crashed" => server = "down"

\* C9, as claimed: when the server accepts connections, get_sleep and
\* get_recovery of every user of USERS have completed successfully, exactly
\* once each, with both values cached and both images rendered; if priming
\* raises, the server is never started.
C9_PrimedAndCachedBeforeServing ==
    /\ server = "accepting" => \A k \in 1..Len(USERS) : PrimedOnce(k) /\ obj[k].sleep # None /\ obj[k].recovery # None
    /\ PrimingGuards

\* C9, amended: as above, except that the sleep value is only known to be
\* cached when the local date did not change between the user's get_sleep
\* and get_recovery (get_recovery's read of today clears it otherwise).
C9_PrimedBeforeServing ==
    /\ server = "accepting" => \A k \in 1..Len(USERS) :
          /\ PrimedOnce(k)
          /\ obj[k].recovery # None
          /\ ghost[k].cachedOn["sleep"] = obj[k]._today => obj[k].sleep # None
    /\ PrimingGuards

C9_Witness ==
    /\ server = "accepting"
    /\ Len(clients) = Len(USERS)
    /\ \A k \in 1..Len(USERS) : PrimedOnce(k) /\ obj[k].sleep # None /\ obj[k].recovery # None

\* The "with" block of object u has been left.
WithExited(u) == u < idx \/ pc \in {"run", "serving", "crashed"}

\* C10: a user's client is closed once its "with" block is left, by
\* success or by an exception; no fitness-API method is ever called on a
\* closed client; and a /comparison request leaves every user object
\* (sleep, recovery, strain, _today) unchanged.
C10_NoUseOfClosedSession ==
    /\ [](\A u \in DOMAIN obj : WithExited(u) => obj[u].closed)
    /\ [](~usedClosed)
    /\ [][RouteComparison => UNCHANGED obj]_vars

C10_Witness ==
    /\ server = "accepting"
    /\ resp.route = "/comparison"
    /\ Len(resp.body) = Len(USERS)
    /\ \A u \in DOMAIN obj : obj[u].closed
    /\ \A j \in 1..Len(resp.body) : resp.body[j].name = USERS[j] /\ resp.body[j].sleepImage \in images

====
